---- MODULE Spec2Model ----
(***************************************************************************)
(* Model of apps/website/src/utils/geolocation.ts: roundCoord,            *)
(* reverseSearch, createAddress, the geocoder adapter (forwardGeocode,    *)
(* reverseGeocode) and getDefaultMarker.                                   *)
(*                                                                         *)
(* One invocation is in progress at a time (the module has no shared      *)
(* state, so invocations do not interact).  An async function is split at *)
(* its await points: the call runs to the fetch, the environment settles  *)
(* the fetch, the function runs to response.json(), the environment       *)
(* settles the body, and the function runs to its end.                     *)
(***************************************************************************)
EXTENDS Integers, Sequences, FiniteSets, TLC

VARIABLES
    pc,         \* "idle" | "awaitFetch" | "awaitJson" | "done"
    op,         \* the function being invoked, "none" when idle
    arg,        \* its arguments
    requests,   \* the requests this invocation has issued so far (URLs)
    response,   \* the Response the fetch resolved with
    logged,     \* number of console.error calls of this invocation
    result,     \* how the invocation completed
    heap        \* every Marker constructed so far (objects of maplibre-gl)

vars == <<pc, op, arg, requests, response, logged, result, heap>>

(***************************************************************************)
(* Bounds of the model.                                                    *)
(***************************************************************************)
MaxScale == 8       \* coordinates have at most MaxScale fractional digits
MaxPrecision == 5   \* precisions are drawn from -1 .. MaxPrecision
MaxFeatures == 2    \* an upstream body holds at most MaxFeatures features
MaxQuery == 3       \* an array query holds at most MaxQuery elements
MaxMarkers == 2     \* at most MaxMarkers markers are constructed

(***************************************************************************)
(* JavaScript numbers, as exact decimals.  A number is [m, e], standing   *)
(* for m / 10^e, kept normalised (e = 0 or m not divisible by 10), which  *)
(* is the shortest decimal that Number::toString prints.                   *)
(***************************************************************************)
RECURSIVE Pow10(_)
Pow10(n) == IF n <= 0 THEN 1 ELSE 10 * Pow10(n - 1)

Abs(i) == IF i < 0 THEN -i ELSE i

RECURSIVE Norm(_, _)
Norm(m, e) == IF m = 0 THEN [m |-> 0, e |-> 0]
              ELSE IF e > 0 /\ m % 10 = 0 THEN Norm(m \div 10, e - 1)
              ELSE [m |-> m, e |-> e]

DigitChar(d) == <<"0", "1", "2", "3", "4", "5", "6", "7", "8", "9">>[d + 1]

\* the decimal digits of a natural number, most significant first
RECURSIVE DigitChars(_)
DigitChars(n) == IF n < 10 THEN <<DigitChar(n)>>
                 ELSE DigitChars(n \div 10) \o <<DigitChar(n % 10)>>

RECURSIVE Zeros(_)
Zeros(n) == IF n <= 0 THEN <<>> ELSE <<"0">> \o Zeros(n - 1)

RECURSIVE TrailingZeros(_)
TrailingZeros(n) == IF n = 0 \/ n % 10 # 0 THEN 0 ELSE 1 + TrailingZeros(n \div 10)

\* Number::toString(x), radix 10 (ECMA-262 6.1.6.1.20), as a sequence of characters
NumberToString(x) ==
    IF x.m = 0 THEN <<"0">>
    ELSE LET sign == IF x.m < 0 THEN <<"-">> ELSE <<>>
             z    == TrailingZeros(Abs(x.m))
             s    == DigitChars(Abs(x.m) \div Pow10(z))
             k    == Len(s)
             n    == k + z - x.e
             ex   == n - 1
         IN  sign \o
             (IF k <= n /\ n <= 21 THEN s \o Zeros(n - k)
              ELSE IF 0 < n /\ n <= 21
                   THEN SubSeq(s, 1, n) \o <<".">> \o SubSeq(s, n + 1, k)
              ELSE IF -6 < n /\ n <= 0
                   THEN <<"0", ".">> \o Zeros(-n) \o s
              ELSE LET tail == <<"e", IF ex < 0 THEN "-" ELSE "+">>
                                   \o DigitChars(Abs(ex))
                   IN  IF k = 1 THEN s \o tail
                       ELSE <<s[1], ".">> \o SubSeq(s, 2, k) \o tail)

\* String.prototype.includes for a one-character needle
Includes(str, ch) == \E i \in 1..Len(str) : str[i] = ch

\* str.split(ch): the pieces between the occurrences of ch
RECURSIVE Split(_, _)
Split(str, ch) ==
    IF ~Includes(str, ch) THEN <<str>>
    ELSE LET i == CHOOSE j \in 1..Len(str) :
                      str[j] = ch /\ \A l \in 1..(j - 1) : str[l] # ch
         IN  <<SubSeq(str, 1, i - 1)>> \o Split(SubSeq(str, i + 1, Len(str)), ch)

\* Number.prototype.toFixed(f) (ECMA-262 21.1.3.3) for |x| < 10^21.  n is the
\* integer nearest to x * 10^f; when the decimal lies exactly half way, the
\* binary value of the double decides, which the decimal does not show: tieUp.
ToFixed(x, f, tieUp) ==
    IF f < 0 \/ f > 100 THEN [threw |-> TRUE, str |-> <<>>]
    ELSE LET M == Abs(x.m)
             d == Pow10(x.e - f)
             q == M \div d
             r == M % d
             n == IF f >= x.e THEN M * Pow10(f - x.e)
                  ELSE IF r > d - r THEN q + 1
                  ELSE IF r < d - r THEN q
                  ELSE IF tieUp THEN q + 1 ELSE q
             ds == DigitChars(n)
             padded == IF Len(ds) <= f THEN Zeros(f + 1 - Len(ds)) \o ds ELSE ds
             k == Len(padded)
             body == IF f = 0 THEN ds
                     ELSE SubSeq(padded, 1, k - f) \o <<".">> \o SubSeq(padded, k - f + 1, k)
         IN  [threw |-> FALSE, str |-> (IF x.m < 0 THEN <<"-">> ELSE <<>>) \o body]

CharDigit(c) == CHOOSE d \in 0..9 : DigitChar(d) = c

RECURSIVE DigitsValue(_)
DigitsValue(ds) == IF ds = <<>> THEN 0
                   ELSE 10 * DigitsValue(SubSeq(ds, 1, Len(ds) - 1)) + CharDigit(ds[Len(ds)])

\* unary plus on a StrDecimalLiteral without exponent: [-]digits[.digits]
StringToNumber(str) ==
    LET neg   == str # <<>> /\ str[1] = "-"
        digs  == IF neg THEN SubSeq(str, 2, Len(str)) ELSE str
        parts == Split(digs, ".")
        int   == parts[1]
        frac  == IF Len(parts) > 1 THEN parts[2] ELSE <<>>
        mag   == DigitsValue(int \o frac)
    IN  Norm(IF neg THEN -mag ELSE mag, Len(frac))

(***************************************************************************)
(* JavaScript values that may be missing are tagged records: UndefinedObj *)
(* and NullObj, against objects and arrays that carry other fields.       *)
(* A string that may be missing is the string itself or Undefined.        *)
(***************************************************************************)
UndefinedObj == [js |-> "undefined"]
NullObj == [js |-> "null"]
Undefined == "<undefined>"

Array(items) == [js |-> "array", items |-> items]
String(chars) == [js |-> "string", chars |-> chars]

\* ToBoolean of a tagged value
Truthy(v) == /\ v # UndefinedObj
             /\ v # NullObj
             /\ ~(v.js = "string" /\ v.chars = <<>>)

\* ToBoolean of a string that may be missing
TruthyStr(s) == s # Undefined /\ s # ""

\* The length property of a string or an array
Length(v) == IF v.js = "string" THEN Len(v.chars) ELSE Len(v.items)

Return(v) == [kind |-> "return", value |-> v]
Throw(e) == [kind |-> "throw", error |-> e]
NoResult == [kind |-> "none"]

(***************************************************************************)
(* roundCoord                                                              *)
(***************************************************************************)
roundCoord(coord, precision, tieUp) ==
    LET coordStr == NumberToString(coord)
    IN  IF Includes(coordStr, ".")
        THEN LET decimals == Split(coordStr, ".")[2]
             IN  IF decimals # <<>> /\ Len(decimals) > 0 /\ Len(decimals) > precision
                 THEN LET fixed == ToFixed(coord, precision, tieUp)
                      IN  IF fixed.threw THEN Throw("RangeError")
                          ELSE Return(StringToNumber(fixed.str))
                 ELSE Return(coord)
        ELSE Return(coord)

(***************************************************************************)
(* createAddress                                                           *)
(***************************************************************************)
\* Array.prototype.join
RECURSIVE Join(_, _)
Join(parts, sep) == IF parts = <<>> THEN ""
                    ELSE IF Len(parts) = 1 THEN parts[1]
                    ELSE parts[1] \o sep \o Join(Tail(parts), sep)

createAddress_NoElse(address) ==
    LET settlement ==
            (IF TruthyStr(address.municipality) THEN <<address.municipality>> ELSE <<>>)
            \o (IF TruthyStr(address.city) THEN <<address.city>> ELSE <<>>)
            \o (IF TruthyStr(address.town) THEN <<address.town>> ELSE <<>>)
            \o (IF TruthyStr(address.village) THEN <<address.village>> ELSE <<>>)
        administrative ==
            (IF TruthyStr(address.region) THEN <<address.region>> ELSE <<>>)
            \o (IF TruthyStr(address.state) THEN <<address.state>> ELSE <<>>)
            \o (IF TruthyStr(address.county) THEN <<address.county>> ELSE <<>>)
        country ==
            IF TruthyStr(address.country) THEN <<address.country>> ELSE <<>>
    IN  Join(settlement \o administrative \o country, ", ")

createAddress(address) ==
    LET settlement ==
            IF TruthyStr(address.municipality) THEN <<address.municipality>>
            ELSE IF TruthyStr(address.city) THEN <<address.city>>
            ELSE IF TruthyStr(address.town) THEN <<address.town>>
            ELSE IF TruthyStr(address.village) THEN <<address.village>>
            ELSE <<>>
        administrative ==
            IF TruthyStr(address.region) THEN <<address.region>>
            ELSE IF TruthyStr(address.state) THEN <<address.state>>
            ELSE IF TruthyStr(address.county) THEN <<address.county>>
            ELSE <<>>
        country ==
            IF TruthyStr(address.country) THEN <<address.country>> ELSE <<>>
    IN  Join(settlement \o administrative \o country, ", ")

(***************************************************************************)
(* getDefaultMarker, over the Marker of maplibre-gl: a marker has the     *)
(* colour and draggable options it was constructed with, the position     *)
(* setLngLat gave it and the map addTo attached it to.                     *)
(***************************************************************************)
AlveusGreen == "alveus-green"       \* config.theme.colors["alveus-green"].DEFAULT
LibraryColor == "#3FB1CE"           \* the colour of a Marker built without options
NoMap == "<no map>"                 \* map argument null / marker attached nowhere

MarkerDefaults == [color |-> LibraryColor, draggable |-> FALSE]

NewMarker(options) ==
    [color |-> options.color, draggable |-> options.draggable,
     lngLat |-> UndefinedObj, map |-> NoMap]

setLngLat(marker, coords) == [marker EXCEPT !.lngLat = coords]

addTo(marker, map) == [marker EXCEPT !.map = map]

getDefaultMarker_Detached(coords, map) ==
    IF map # NoMap
    THEN setLngLat(NewMarker([color |-> AlveusGreen, draggable |-> TRUE]), coords)
    ELSE NewMarker(MarkerDefaults)

getDefaultMarker(coords, map) ==
    IF map # NoMap
    THEN addTo(setLngLat(NewMarker([color |-> AlveusGreen, draggable |-> TRUE]),
                         coords), map)
    ELSE NewMarker(MarkerDefaults)

(***************************************************************************)
(* The geocoding service.  A body is JSON null, an object without         *)
(* features, or an object whose features is an array of raw features.     *)
(***************************************************************************)
Resolve(v) == [kind |-> "resolve", value |-> v]
Reject(e) == [kind |-> "reject", error |-> e]

UserError == "Error: Couldn't search for that place."

FeatureCollection(features) == [type |-> "FeatureCollection", features |-> features]

NoAddress == [municipality |-> Undefined, city |-> Undefined, town |-> Undefined,
              village |-> Undefined, region |-> Undefined, state |-> Undefined,
              county |-> Undefined, country |-> Undefined]

Props1 == [placeid |-> 1, display_name |-> "Austin, Texas",
           address |-> [NoAddress EXCEPT !.city = "Austin", !.state = "Texas",
                                         !.country = "United States"]]
Props2 == [placeid |-> 2, display_name |-> "Travis County", address |-> UndefinedObj]

Bbox1 == Array(<<30, 40, 50, 60>>)
Bbox2 == Array(<<31, 41, 51, 61>>)

RawFeatures ==
    { [properties |-> Props1, bbox |-> Bbox1],
      [properties |-> Props2, bbox |-> Bbox2],
      [properties |-> Props1, bbox |-> UndefinedObj],
      [properties |-> UndefinedObj, bbox |-> Bbox2],
      NullObj }

SeqsUpTo(S, n) == UNION { [1..k -> S] : k \in 0..n }

Bodies ==
    { NullObj, [js |-> "object", features |-> UndefinedObj] }
    \cup { [js |-> "object", features |-> Array(fs)] : fs \in SeqsUpTo(RawFeatures, MaxFeatures) }

QueryNumbers == {10, 20}

Queries ==
    { UndefinedObj, String(<<>>), String(<<"a">>), String(<<"a", "b">>) }
    \cup { Array(q) : q \in SeqsUpTo(QueryNumbers, MaxQuery) }

\* query[i] of a string or an array
Element(v, i) == IF v.js = "string" THEN v.chars[i] ELSE v.items[i]

Pending == [status |-> "pending", ok |-> FALSE, body |-> UndefinedObj]

(***************************************************************************)
(* forwardGeocode                                                          *)
(***************************************************************************)
forwardRequest(config) == [endpoint |-> "search", q |-> config.query]

forwardPoint_MaxCorner(feature) ==
    [id |-> feature.properties.placeid,
     type |-> "Feature",
     geometry |-> [type |-> "Point",
                   coordinates |-> <<feature.bbox.items[3], feature.bbox.items[4]>>],
     properties |-> feature.properties,
     place_name |-> feature.properties.display_name,
     place_type |-> <<"place">>,
     text |-> feature.properties.display_name]

\* the object literal of the loop body; bbox[0], bbox[1] are items[1], items[2]
forwardPoint(feature) ==
    [id |-> feature.properties.placeid,
     type |-> "Feature",
     geometry |-> [type |-> "Point",
                   coordinates |-> <<feature.bbox.items[1], feature.bbox.items[2]>>],
     properties |-> feature.properties,
     place_name |-> feature.properties.display_name,
     place_type |-> <<"place">>,
     text |-> feature.properties.display_name]

\* the for-of loop: pushes until a feature makes the literal throw a TypeError
\* (feature null, feature.properties undefined, feature.bbox undefined)
RECURSIVE forwardLoop(_, _)
forwardLoop(items, features) ==
    IF items = <<>> THEN [features |-> features, threw |-> FALSE]
    ELSE LET feature == Head(items)
         IN  IF \/ feature = NullObj
                \/ feature.properties = UndefinedObj
                \/ feature.bbox = UndefinedObj
             THEN [features |-> features, threw |-> TRUE]
             ELSE forwardLoop(Tail(items), Append(features, forwardPoint(feature)))

\* the try block from the parsed body on: geoData.features of null throws,
\* and so does iterating over undefined
forwardGeocodeTry(geoData) ==
    IF geoData = NullObj \/ geoData.features = UndefinedObj
    THEN [features |-> <<>>, threw |-> TRUE]
    ELSE forwardLoop(geoData.features.items, <<>>)

forwardGeocodeEnd_Rethrow(features, threw) ==
    IF threw THEN Reject("rethrown") ELSE Resolve(FeatureCollection(features))

\* the catch block and the return after it
forwardGeocodeEnd(features, threw) == Resolve(FeatureCollection(features))

(***************************************************************************)
(* reverseGeocode                                                          *)
(***************************************************************************)
reverseGuard_AtLeastTwo(config) ==
    ~Truthy(config.query) \/ Length(config.query) < 2

\* !config.query || config.query.length != 2
reverseGuard(config) ==
    ~Truthy(config.query) \/ Length(config.query) # 2

reverseRequest(lat, lon) == [endpoint |-> "reverse", lat |-> lat, lon |-> lon]

reversePoint_FromResponse(feature, lon, lat) ==
    [id |-> feature.properties.placeid,
     type |-> "Feature",
     geometry |-> [type |-> "Point",
                   coordinates |-> IF feature.bbox = UndefinedObj THEN <<lon, lat>>
                                   ELSE <<feature.bbox.items[1], feature.bbox.items[2]>>],
     properties |-> feature.properties,
     place_name |-> feature.properties.display_name,
     place_type |-> <<"place">>,
     text |-> feature.properties.display_name]

reversePoint(feature, lon, lat) ==
    [id |-> feature.properties.placeid,
     type |-> "Feature",
     geometry |-> [type |-> "Point", coordinates |-> <<lon, lat>>],
     properties |-> feature.properties,
     place_name |-> feature.properties.display_name,
     place_type |-> <<"place">>,
     text |-> feature.properties.display_name]

RECURSIVE reverseLoop(_, _, _, _)
reverseLoop(items, features, lon, lat) ==
    IF items = <<>> THEN [features |-> features, threw |-> FALSE]
    ELSE LET feature == Head(items)
         IN  IF feature = NullObj \/ feature.properties = UndefinedObj
             THEN [features |-> features, threw |-> TRUE]
             ELSE reverseLoop(Tail(items),
                              Append(features, reversePoint(feature, lon, lat)), lon, lat)

\* the try block from the parsed body on
reverseGeocodeTry(geoData, lon, lat) ==
    IF geoData # NullObj /\ Truthy(geoData.features)
    THEN reverseLoop(geoData.features.items, <<>>, lon, lat)
    ELSE [features |-> <<>>, threw |-> FALSE]

\* the catch block and the return after it
reverseGeocodeEnd(features, threw) == Resolve(FeatureCollection(features))

(***************************************************************************)
(* reverseSearch                                                           *)
(***************************************************************************)
\* the code after `await response.json()`
reverseSearchAfterJson(data) ==
    IF data # NullObj /\ Truthy(data.features)
    THEN LET items == data.features.items
         IN  IF \/ items = <<>>                         \* features[0] is undefined
                \/ items[1] = NullObj
                \/ items[1].properties = UndefinedObj
                \/ items[1].properties.address = UndefinedObj
             THEN Reject("TypeError")
             ELSE Resolve(createAddress(items[1].properties.address))
    ELSE Reject(UserError)

(***************************************************************************)
(* Inputs                                                                  *)
(***************************************************************************)
Mantissas == {0, 1, 2, 5, 12, 15, 125, 123456}

Coordinates == { Norm(sg * m, e) : sg \in {-1, 1}, m \in Mantissas, e \in 0..MaxScale }

Precisions == -1..MaxPrecision

AddressValues(name) == {Undefined, "", name}

Addresses ==
    [municipality : AddressValues("Mun"), city : AddressValues("City"),
     town : AddressValues("Town"), village : AddressValues("Village"),
     region : AddressValues("Region"), state : AddressValues("State"),
     county : AddressValues("County"), country : AddressValues("Country")]

LngLats == [lat : {30, 31}, lon : {-97, -98}]

Maps == {"map1", "map2"}

(***************************************************************************)
(* State machine                                                           *)
(***************************************************************************)
Init ==
    /\ pc = "idle"
    /\ op = "none"
    /\ arg = UndefinedObj
    /\ requests = <<>>
    /\ response = Pending
    /\ logged = 0
    /\ result = NoResult
    /\ heap = <<>>

roundCoordCall ==
    /\ pc = "idle"
    /\ \E coord \in Coordinates, precision \in Precisions, tieUp \in BOOLEAN :
          /\ arg' = [coord |-> coord, precision |-> precision, tieUp |-> tieUp]
          /\ result' = roundCoord(coord, precision, tieUp)
    /\ op' = "roundCoord"
    /\ pc' = "done"
    /\ UNCHANGED <<requests, response, logged, heap>>

createAddressCall ==
    /\ pc = "idle"
    /\ \E address \in Addresses :
          /\ arg' = [address |-> address]
          /\ result' = Return(createAddress(address))
    /\ op' = "createAddress"
    /\ pc' = "done"
    /\ UNCHANGED <<requests, response, logged, heap>>

getDefaultMarkerCall ==
    /\ pc = "idle"
    /\ Len(heap) < MaxMarkers
    /\ \E coords \in LngLats, map \in Maps \cup {NoMap} :
          /\ arg' = [coords |-> coords, map |-> map]
          /\ heap' = Append(heap, getDefaultMarker(coords, map))
    /\ result' = Return(Len(heap'))          \* the handle of the new marker
    /\ op' = "getDefaultMarker"
    /\ pc' = "done"
    /\ UNCHANGED <<requests, response, logged>>

forwardGeocodeCall ==
    /\ pc = "idle"
    /\ \E query \in Queries :
          /\ arg' = [config |-> [query |-> query]]
          /\ requests' = <<forwardRequest([query |-> query])>>
    /\ op' = "forwardGeocode"
    /\ pc' = "awaitFetch"
    /\ UNCHANGED <<response, logged, result, heap>>

reverseGeocodeCall ==
    /\ pc = "idle"
    /\ \E query \in Queries :
          LET config == [query |-> query]
          IN  /\ arg' = [config |-> config]
              /\ IF reverseGuard(config)
                 THEN /\ result' = Resolve(FeatureCollection(<<>>))
                      /\ pc' = "done"
                      /\ UNCHANGED requests
                 ELSE /\ requests' = <<reverseRequest(Element(query, 2), Element(query, 1))>>
                      /\ pc' = "awaitFetch"
                      /\ UNCHANGED result
    /\ op' = "reverseGeocode"
    /\ UNCHANGED <<response, logged, heap>>

reverseSearchCall ==
    /\ pc = "idle"
    /\ \E lat \in QueryNumbers, lon \in QueryNumbers :
          /\ arg' = [lat |-> lat, lon |-> lon]
          /\ requests' = <<reverseRequest(lat, lon)>>
    /\ op' = "reverseSearch"
    /\ pc' = "awaitFetch"
    /\ UNCHANGED <<response, logged, result, heap>>

\* fetch rejects (network error)
FetchRejects ==
    /\ pc = "awaitFetch"
    /\ response' = [response EXCEPT !.status = "rejected"]
    /\ IF op = "forwardGeocode"
       THEN /\ logged' = logged + 1
            /\ result' = forwardGeocodeEnd(<<>>, TRUE)
       ELSE IF op = "reverseGeocode"
       THEN /\ logged' = logged + 1
            /\ result' = reverseGeocodeEnd(<<>>, TRUE)
       ELSE /\ result' = Reject("TypeError: Failed to fetch")
            /\ UNCHANGED logged
    /\ pc' = "done"
    /\ UNCHANGED <<op, arg, requests, heap>>

\* fetch resolves with a Response; the function runs to its next await
FetchResolves ==
    /\ pc = "awaitFetch"
    /\ \E ok \in BOOLEAN :
          /\ response' = [response EXCEPT !.status = "resolved", !.ok = ok]
          /\ IF op = "reverseSearch" /\ ~ok
             THEN /\ result' = Reject(UserError)
                  /\ pc' = "done"
             ELSE /\ pc' = "awaitJson"
                  /\ UNCHANGED result
    /\ UNCHANGED <<op, arg, requests, logged, heap>>

\* response.json() rejects (the body is not JSON)
JsonRejects ==
    /\ pc = "awaitJson"
    /\ response' = [response EXCEPT !.body = [js |-> "syntaxerror"]]
    /\ IF op = "forwardGeocode"
       THEN /\ logged' = logged + 1
            /\ result' = forwardGeocodeEnd(<<>>, TRUE)
       ELSE IF op = "reverseGeocode"
       THEN /\ logged' = logged + 1
            /\ result' = reverseGeocodeEnd(<<>>, TRUE)
       ELSE /\ result' = Reject("SyntaxError")
            /\ UNCHANGED logged
    /\ pc' = "done"
    /\ UNCHANGED <<op, arg, requests, heap>>

\* response.json() resolves; the function runs to its end
JsonResolves ==
    /\ pc = "awaitJson"
    /\ \E body \in Bodies :
          /\ response' = [response EXCEPT !.body = body]
          /\ IF op = "forwardGeocode"
             THEN LET t == forwardGeocodeTry(body)
                  IN  /\ logged' = IF t.threw THEN logged + 1 ELSE logged
                      /\ result' = forwardGeocodeEnd(t.features, t.threw)
             ELSE IF op = "reverseGeocode"
             THEN LET t == reverseGeocodeTry(body, Element(arg.config.query, 1),
                                             Element(arg.config.query, 2))
                  IN  /\ logged' = IF t.threw THEN logged + 1 ELSE logged
                      /\ result' = reverseGeocodeEnd(t.features, t.threw)
             ELSE /\ result' = reverseSearchAfterJson(body)
                  /\ UNCHANGED logged
    /\ pc' = "done"
    /\ UNCHANGED <<op, arg, requests, heap>>

\* the caller takes the result; the markers stay with the maps
Finish ==
    /\ pc = "done"
    /\ pc' = "idle"
    /\ op' = "none"
    /\ arg' = UndefinedObj
    /\ requests' = <<>>
    /\ response' = Pending
    /\ logged' = 0
    /\ result' = NoResult
    /\ UNCHANGED heap

NextRound == roundCoordCall \/ Finish
NextAddress == createAddressCall \/ Finish
NextMarker == getDefaultMarkerCall \/ Finish
NextGeocode ==
    \/ forwardGeocodeCall
    \/ reverseGeocodeCall
    \/ reverseSearchCall
    \/ FetchRejects
    \/ FetchResolves
    \/ JsonRejects
    \/ JsonResolves
    \/ Finish

Next == NextRound \/ NextAddress \/ NextMarker \/ NextGeocode

SpecRound == Init /\ [][NextRound]_vars
SpecAddress == Init /\ [][NextAddress]_vars
SpecMarker == Init /\ [][NextMarker]_vars
SpecGeocode == Init /\ [][NextGeocode]_vars
Spec == Init /\ [][Next]_vars

(***************************************************************************)
(* Properties                                                              *)
(***************************************************************************)
Adapter == {"forwardGeocode", "reverseGeocode"}

\* the body was parsed and holds a features array
HasFeatureArray ==
    /\ response.status = "resolved"
    /\ response.body.js = "object"
    /\ response.body.features # UndefinedObj

Upstream == response.body.features.items

\* C1: a completed forwardGeocode or reverseGeocode has resolved with an object
\* of type "FeatureCollection" holding a features array, whatever the fetch and
\* the body did; it has not rejected.
C1_AdapterAlwaysResolves ==
    (pc = "done" /\ op \in Adapter) =>
        /\ result.kind = "resolve"
        /\ result.value.type = "FeatureCollection"
        /\ DOMAIN result.value.features = 1..Len(result.value.features)

\* a forwardGeocode whose try block threw while mapping has completed
C1_Witness ==
    /\ pc = "done"
    /\ op = "forwardGeocode"
    /\ logged = 1
    /\ HasFeatureArray
    /\ result.kind = "resolve"

\* C2: a completed forwardGeocode or reverseGeocode holds no partial result:
\* zero features when an exception occurred (one was logged), and one feature per
\* upstream feature when none occurred.
C2_NoPartialResult ==
    (pc = "done" /\ op \in Adapter /\ result.kind = "resolve") =>
        /\ logged > 0 => result.value.features = <<>>
        /\ (logged = 0 /\ HasFeatureArray) =>
               Len(result.value.features) = Len(Upstream)

\* the failure cases the claim lists for reverseSearch
ReverseSearchFailure ==
    \/ response.status = "rejected"
    \/ response.status = "resolved" /\ ~response.ok
    \/ response.body = NullObj
    \/ /\ response.body.js = "object"
       /\ \/ response.body.features = UndefinedObj
          \/ Upstream = <<>>

\* C3: a completed reverseSearch has issued exactly one request; it has
\* resolved only on a success status with at least one feature, and in every
\* failure case (non-success status, no features or an empty feature list,
\* network failure) it has rejected with the user-facing error.
C3_ReverseSearchUserError ==
    (pc = "done" /\ op = "reverseSearch") =>
        /\ Len(requests) = 1
        /\ result.kind = "resolve" =>
               /\ response.ok
               /\ HasFeatureArray
               /\ Len(Upstream) >= 1
        /\ ReverseSearchFailure => result = Reject(UserError)

\* the query is present and has exactly two elements
TwoElements(query) == query # UndefinedObj /\ Length(query) = 2

\* C4: in a reverseGeocode invocation whose query is absent or has not exactly
\* two elements no request is ever issued and the invocation has completed with
\* the empty feature collection; a request is issued only for two elements.
C4_ReverseGuardNoRequest ==
    op = "reverseGeocode" =>
        /\ ~TwoElements(arg.config.query) =>
               /\ requests = <<>>
               /\ pc = "done"
               /\ result = Resolve(FeatureCollection(<<>>))
        /\ requests # <<>> => TwoElements(arg.config.query)

\* reverseGeocode has returned for a one-element query without a request
C4_Witness ==
    /\ pc = "done"
    /\ op = "reverseGeocode"
    /\ arg.config.query = Array(<<10>>)
    /\ requests = <<>>

\* a raw feature reverseGeocode maps without a TypeError
ReverseMappable(feature) == feature # NullObj /\ feature.properties # UndefinedObj

\* C5: every feature a reverseGeocode returns for a query [lon, lat] is a Point
\* at the input [lon, lat], whatever the response carries; and for a response
\* whose features all map, the collection has one feature per upstream feature,
\* in response order.
C5_ReverseUsesInputCoordinates ==
    (pc = "done" /\ op = "reverseGeocode" /\ requests # <<>>
        /\ result.kind = "resolve") =>
        LET fs == result.value.features
            q  == arg.config.query
        IN  /\ \A i \in 1..Len(fs) :
                   fs[i].geometry = [type |-> "Point",
                                     coordinates |-> <<Element(q, 1), Element(q, 2)>>]
            /\ (HasFeatureArray /\ \A i \in 1..Len(Upstream) : ReverseMappable(Upstream[i]))
                   => /\ Len(fs) = Len(Upstream)
                      /\ \A i \in 1..Len(fs) :
                             /\ fs[i].id = Upstream[i].properties.placeid
                             /\ fs[i].properties = Upstream[i].properties

\* reverseGeocode has mapped two features that carry their own bounding boxes
C5_Witness ==
    /\ pc = "done"
    /\ op = "reverseGeocode"
    /\ arg.config.query = Array(<<10, 20>>)
    /\ HasFeatureArray
    /\ Len(Upstream) = 2
    /\ Upstream[1] # NullObj /\ Upstream[1].bbox = Bbox1
    /\ Upstream[2] # NullObj /\ Upstream[2].bbox = Bbox2
    /\ Len(result.value.features) = 2

\* a raw feature with properties and a bounding box
WellFormed(feature) ==
    /\ feature # NullObj
    /\ feature.properties # UndefinedObj
    /\ feature.bbox # UndefinedObj

\* C6: for a response of n well-formed features forwardGeocode returns n
\* features in response order, the i-th with coordinates [bbox[0], bbox[1]], id
\* placeid, place_name and text display_name, place_type ["place"] and the
\* properties of the i-th upstream feature; zero features give an empty
\* collection.
C6_ForwardMapsEveryFeature ==
    (pc = "done" /\ op = "forwardGeocode" /\ HasFeatureArray
        /\ result.kind = "resolve"
        /\ \A i \in 1..Len(Upstream) : WellFormed(Upstream[i])) =>
        LET fs == result.value.features
        IN  /\ Len(fs) = Len(Upstream)
            /\ \A i \in 1..Len(fs) :
                   LET up == Upstream[i]
                   IN  /\ fs[i].type = "Feature"
                       /\ fs[i].geometry.type = "Point"
                       /\ fs[i].geometry.coordinates[1] = up.bbox.items[1]
                       /\ fs[i].geometry.coordinates[2] = up.bbox.items[2]
                       /\ Len(fs[i].geometry.coordinates) = 2
                       /\ fs[i].id = up.properties.placeid
                       /\ fs[i].place_name = up.properties.display_name
                       /\ fs[i].text = up.properties.display_name
                       /\ fs[i].place_type = <<"place">>
                       /\ fs[i].properties = up.properties

\* forwardGeocode has mapped two different well-formed features
C6_Witness ==
    /\ pc = "done"
    /\ op = "forwardGeocode"
    /\ HasFeatureArray
    /\ Len(Upstream) = 2
    /\ WellFormed(Upstream[1]) /\ WellFormed(Upstream[2])
    /\ Upstream[1].properties.placeid = 2
    /\ Upstream[2].properties.placeid = 1
    /\ Len(result.value.features) = 2

SettlementTier == <<"municipality", "city", "town", "village">>
AdministrativeTier == <<"region", "state", "county">>
CountryTier == <<"country">>

\* the first field of the tier whose value is not in `absent`, if any
FirstOf(address, tier, absent) ==
    LET I == { i \in 1..Len(tier) : address[tier[i]] \notin absent }
    IN  IF I = {} THEN <<>>
        ELSE <<address[tier[CHOOSE i \in I : \A j \in I : i <= j]]>>

Formatted(address, absent) ==
    Join(FirstOf(address, SettlementTier, absent)
         \o FirstOf(address, AdministrativeTier, absent)
         \o FirstOf(address, CountryTier, absent), ", ")

\* C7 (as stated): createAddress returns the ", "-joined first present field of
\* municipality, city, town, village, then the first present of region, state,
\* county, then country if present; a field is present when the record has it.
C7_FirstPresentWins ==
    (pc = "done" /\ op = "createAddress") =>
        result.value = Formatted(arg.address, {Undefined})

\* C7 (amended): the same with "present" read as present and not the empty
\* string: an empty field is passed over like a missing one.
C7_FirstNonEmptyWins ==
    (pc = "done" /\ op = "createAddress") =>
        result.value = Formatted(arg.address, {Undefined, ""})

\* createAddress has formatted a record with two settlements, an empty region
\* and a state
C7_Witness ==
    /\ pc = "done"
    /\ op = "createAddress"
    /\ arg.address.municipality = "Mun"
    /\ arg.address.city = "City"
    /\ arg.address.region = ""
    /\ arg.address.state = "State"
    /\ arg.address.country = "Country"
    /\ result.value = "Mun, State, Country"

\* C8: a call of getDefaultMarker constructs one new marker and returns it,
\* leaves every earlier marker as it was, and attaches the new marker exactly
\* when the map is non-null: to that map, at the given coordinate.
C8_AttachedIffMap ==
    [][(pc = "idle" /\ op' = "getDefaultMarker") =>
          /\ Len(heap') = Len(heap) + 1
          /\ SubSeq(heap', 1, Len(heap)) = heap
          /\ result' = Return(Len(heap'))
          /\ LET marker == heap'[Len(heap')]
             IN  IF arg'.map = NoMap
                 THEN marker.map = NoMap
                 ELSE marker.map = arg'.map /\ marker.lngLat = arg'.coords]_vars

\* a call without a map has returned a detached marker while an earlier marker
\* stays attached
C8_Witness ==
    /\ pc = "done"
    /\ op = "getDefaultMarker"
    /\ arg.map = NoMap
    /\ Len(heap) = 2
    /\ heap[1].map = "map1"
    /\ heap[2].map = NoMap

\* C9: the marker getDefaultMarker returns has the theme colour, is draggable
\* and is positioned at the given coordinate, with or without a map.
C9_StyledWithOrWithoutMap ==
    (pc = "done" /\ op = "getDefaultMarker") =>
        LET marker == heap[result.value]
        IN  /\ marker.color = AlveusGreen
            /\ marker.draggable
            /\ marker.lngLat = arg.coords

\* r is x rounded to p decimal places: at most p fractional digits, at most
\* half a unit of the p-th place away from x
IsRounded(r, x, p) ==
    /\ r.e <= p
    /\ 2 * Abs(r.m * Pow10(x.e - r.e) - x.m) <= Pow10(x.e - p)

\* C10: for a precision p >= 0, roundCoord returns the coordinate rounded to p
\* decimal places when its decimal representation has more than p fractional
\* digits, and the coordinate itself otherwise.
C10_RoundsLongerFractions ==
    (pc = "done" /\ op = "roundCoord" /\ arg.precision >= 0) =>
        /\ result.kind = "return"
        /\ IF arg.coord.e > arg.precision
           THEN IsRounded(result.value, arg.coord, arg.precision)
           ELSE result.value = arg.coord

====
